---- MODULE Spec2Model ----
(***************************************************************************)
(* A model of komtet_kassa_sdk/client.py: the Client's configuration       *)
(* (host, shop id, secret key, default queue), its nine API operations,    *)
(* the request each one builds and signs, and what each returns or raises  *)
(* once the HTTP transport has answered.                                   *)
(*                                                                         *)
(* Python str values are sequences of one-character strings, so that       *)
(* strip('/'), '%s' formatting, ''.join and json.dumps are computed        *)
(* character by character.  Python values that may be None, an int or a    *)
(* str are tagged records (None, PyInt, PyStr).                            *)
(*                                                                         *)
(* One synchronous call is three steps: the operation's action runs the    *)
(* handler up to the HTTP request (pc: idle -> waiting, or idle -> done    *)
(* when it raises or returns before any request), the transport answers    *)
(* and the handler runs to its end (waiting -> done), and the caller takes *)
(* the result or the exception (done -> idle).                             *)
(***************************************************************************)
EXTENDS Integers, Sequences, FiniteSets, TLC

VARIABLES
    host,           \* Client.__host
    shop_id,        \* Client.__shop_id
    secret_key,     \* Client.__secret_key (bytes)
    default_queue,  \* Client.__default_queue
    ctor,           \* the arguments __init__ was called with
    pc,             \* "idle" | "waiting" | "done"
    call,           \* the operation being run, or run last, with its arguments
    path,           \* the path the handler passed to __get/__post/__put/__delete
    sent,           \* the HTTP requests this call has issued, in order
    rep,            \* the response the transport returned to this call
    outcome,        \* how the call ended: a returned value or a raised exception
    sign            \* a direct call of __get_signature and its swapped twin

vars ==
    <<host, shop_id, secret_key, default_queue, ctor, pc, call, path, sent,
      rep, outcome, sign>>

config == <<host, shop_id, secret_key, default_queue>>

-----------------------------------------------------------------------------
(* Bounds of the model. *)

\* queue ids are 0 .. MaxQid
MaxQid == 1
\* task and order ids are 1 .. MaxId
MaxId == 1
\* a configured host is DEFAULT_HOST followed by 0 .. MaxSlashes slashes
MaxSlashes == 1
\* the strings handed directly to __get_signature have 1 .. MaxLen characters
MaxLen == 2

-----------------------------------------------------------------------------
(* Python values. *)

None == [t |-> "none"]
PyStr(s) == [t |-> "str", v |-> s]
PyInt(n) == [t |-> "int", v |-> n]
PyDecimal(units, scale) == [t |-> "decimal", units |-> units, scale |-> scale]

Digit == <<"0", "1", "2", "3", "4", "5", "6", "7", "8", "9">>

\* str(n) of a natural number
RECURSIVE IntStr(_)
IntStr(n) ==
    IF n < 10 THEN <<Digit[n + 1]>>
    ELSE IntStr(n \div 10) \o <<Digit[(n % 10) + 1]>>

\* '%s' % x
Fmt(x) ==
    CASE x.t = "str" -> x.v
      [] x.t = "int" -> IntStr(x.v)
      [] x.t = "none" -> <<"N","o","n","e">>

\* bool(x): the test of `if x:`
Truthy(x) ==
    CASE x.t = "none" -> FALSE
      [] x.t = "str" -> x.v # <<>>
      [] x.t = "int" -> x.v # 0

RECURSIVE Power10(_)
Power10(k) == IF k = 0 THEN 1 ELSE 10 * Power10(k - 1)

RECURSIVE StripZeros(_)
StripZeros(s) ==
    IF s # <<>> /\ s[Len(s)] = "0" THEN StripZeros(SubSeq(s, 1, Len(s) - 1)) ELSE s

RECURSIVE PadLeft(_, _)
PadLeft(s, k) == IF Len(s) < k THEN PadLeft(<<"0">> \o s, k) ELSE s

\* float(obj) of a Decimal followed by json's float repr: the shortest
\* decimal literal, with at least one digit after the point
FloatRepr(d) ==
    LET whole == d.units \div Power10(d.scale)
        frac == StripZeros(PadLeft(IntStr(d.units % Power10(d.scale)), d.scale))
    IN  IntStr(whole) \o <<".">> \o (IF frac = <<>> THEN <<"0">> ELSE frac)

RECURSIVE JsonEscape(_)
JsonEscape(s) ==
    IF s = <<>> THEN <<>>
    ELSE (IF Head(s) \in {"\"", "\\"} THEN <<"\\", Head(s)>> ELSE <<Head(s)>>)
         \o JsonEscape(Tail(s))

JsonString(s) == <<"\"">> \o JsonEscape(s) \o <<"\"">>

JSONEncoder_default(x) ==
    CASE x.t = "str" -> JsonString(x.v)
      [] x.t = "int" -> IntStr(x.v)
      [] x.t = "decimal" -> FloatRepr(x)

RECURSIVE JsonItems(_)
JsonItems(items) ==
    IF items = <<>> THEN <<>>
    ELSE JsonString(items[1][1]) \o <<":", " ">> \o JSONEncoder_default(items[1][2])
         \o (IF Len(items) > 1 THEN <<",", " ">> ELSE <<>>)
         \o JsonItems(Tail(items))

\* json.dumps(data, cls=JSONEncoder) of a mapping, given as its items in order
json_encode(data) == <<"{">> \o JsonItems(data) \o <<"}">>

-----------------------------------------------------------------------------
(* Constants of the source. *)

DEFAULT_HOST ==
    <<"h","t","t","p","s",":","/","/","k","a","s","s","a",".","k","o","m","t","e","t",".","r","u">>

OrderInfoFields ==
    {"id", "client_name", "client_address", "client_email", "client_phone", "sno",
     "is_paid", "payment_type", "description", "state", "items", "amount",
     "prepayment", "courier", "is_pay_to_courier", "date_start", "date_end",
     "callback_url"}

CouriersInfoFields == {"couriers", "meta"}

APPLICATION_JSON ==
    <<"a","p","p","l","i","c","a","t","i","o","n","/","j","s","o","n">>

ord ==
    (" " :> 32) @@ ("!" :> 33) @@ ("\"" :> 34) @@ ("#" :> 35) @@ ("$" :> 36) @@ ("%" :> 37)
    @@ ("&" :> 38) @@ ("'" :> 39) @@ ("(" :> 40) @@ (")" :> 41) @@ ("*" :> 42) @@ ("+" :> 43)
    @@ ("," :> 44) @@ ("-" :> 45) @@ ("." :> 46) @@ ("/" :> 47) @@ ("0" :> 48) @@ ("1" :> 49)
    @@ ("2" :> 50) @@ ("3" :> 51) @@ ("4" :> 52) @@ ("5" :> 53) @@ ("6" :> 54) @@ ("7" :> 55)
    @@ ("8" :> 56) @@ ("9" :> 57) @@ (":" :> 58) @@ (";" :> 59) @@ ("<" :> 60) @@ ("=" :> 61)
    @@ (">" :> 62) @@ ("?" :> 63) @@ ("@" :> 64) @@ ("A" :> 65) @@ ("B" :> 66) @@ ("C" :> 67)
    @@ ("D" :> 68) @@ ("E" :> 69) @@ ("F" :> 70) @@ ("G" :> 71) @@ ("H" :> 72) @@ ("I" :> 73)
    @@ ("J" :> 74) @@ ("K" :> 75) @@ ("L" :> 76) @@ ("M" :> 77) @@ ("N" :> 78) @@ ("O" :> 79)
    @@ ("P" :> 80) @@ ("Q" :> 81) @@ ("R" :> 82) @@ ("S" :> 83) @@ ("T" :> 84) @@ ("U" :> 85)
    @@ ("V" :> 86) @@ ("W" :> 87) @@ ("X" :> 88) @@ ("Y" :> 89) @@ ("Z" :> 90) @@ ("[" :> 91)
    @@ ("\\" :> 92) @@ ("]" :> 93) @@ ("^" :> 94) @@ ("_" :> 95) @@ ("a" :> 97)
    @@ ("b" :> 98) @@ ("c" :> 99) @@ ("d" :> 100) @@ ("e" :> 101) @@ ("f" :> 102) @@ ("g" :> 103)
    @@ ("h" :> 104) @@ ("i" :> 105) @@ ("j" :> 106) @@ ("k" :> 107) @@ ("l" :> 108) @@ ("m" :> 109)
    @@ ("n" :> 110) @@ ("o" :> 111) @@ ("p" :> 112) @@ ("q" :> 113) @@ ("r" :> 114) @@ ("s" :> 115)
    @@ ("t" :> 116) @@ ("u" :> 117) @@ ("v" :> 118) @@ ("w" :> 119) @@ ("x" :> 120) @@ ("y" :> 121)
    @@ ("z" :> 122) @@ ("{" :> 123) @@ ("|" :> 124) @@ ("}" :> 125) @@ ("~" :> 126)

\* s.encode('utf-8') of an ASCII str: one byte per character (ord is the ASCII
\* table of the printable characters the model's strings are made of)
encode_utf8(s) == [b |-> [i \in 1..Len(s) |-> ord[s[i]]]]

\* hmac.new(key, msg, hashlib.md5).hexdigest(), as a symbolic term: equal
\* digests come from equal keys and equal messages
hmac_md5_hexdigest(key, msg) == [alg |-> "HMAC-MD5", key |-> key, msg |-> msg]

P_QUEUES ==
    <<"/","a","p","i","/","s","h","o","p","/","v","1","/","q","u","e","u","e","s","/">>
P_TASK ==
    <<"/","t","a","s","k">>
P_TASKS ==
    <<"/","a","p","i","/","s","h","o","p","/","v","1","/","t","a","s","k","s","/">>
P_ORDERS ==
    <<"/","a","p","i","/","s","h","o","p","/","v","1","/","o","r","d","e","r","s">>
P_ORDERS_START ==
    <<"/","a","p","i","/","s","h","o","p","/","v","1","/","o","r","d","e","r","s","?","s","t","a","r","t","=">>
P_LIMIT ==
    <<"&","l","i","m","i","t","=">>
P_COURIER_ID ==
    <<"&","c","o","u","r","i","e","r","_","i","d","=">>
P_DATE_START ==
    <<"&","d","a","t","e","_","s","t","a","r","t","=">>
P_COURIERS_START ==
    <<"/","a","p","i","/","s","h","o","p","/","v","1","/","c","o","u","r","i","e","r","s","?","s","t","a","r","t","=">>
P_ORDERS_SLASH ==
    <<"/","a","p","i","/","s","h","o","p","/","v","1","/","o","r","d","e","r","s","/">>

-----------------------------------------------------------------------------
(* Results and exceptions. *)

NoOutcome == [kind |-> "none"]
Return(value) == [kind |-> "return", value |-> value]
Raise(exc) == [kind |-> "raise", exc |-> exc]

Self == [type |-> "Client"]
PyBool(b) == [type |-> "bool", v |-> b]

\* class Response: keeps the keyword arguments it was built from
Response(data) == [type |-> "Response", data |-> data]

ValueError_NoQueue == [type |-> "ValueError", msg |-> "Queue ID is not specified"]
HTTPError(r) == [type |-> "HTTPError", response |-> r]
ConnectionError == [type |-> "ConnectionError"]
JSONDecodeError == [type |-> "JSONDecodeError"]
AttributeError == [type |-> "AttributeError"]
TypeError == [type |-> "TypeError"]

-----------------------------------------------------------------------------
(* The private helpers of Client. *)

\* handle_queue_id with the slip `if not qid` for `if qid is None`: queue id 0
\* counts as missing
handle_queue_id_falsy(qid) ==
    IF ~Truthy(qid)
    THEN IF default_queue = None
         THEN [raised |-> TRUE, exc |-> ValueError_NoQueue]
         ELSE [raised |-> FALSE, qid |-> default_queue]
    ELSE [raised |-> FALSE, qid |-> qid]

\* __handle_queue_id: the queue id to use, or the ValueError it raises
handle_queue_id(qid) ==
    IF qid = None
    THEN IF default_queue = None
         THEN [raised |-> TRUE, exc |-> ValueError_NoQueue]
         ELSE [raised |-> FALSE, qid |-> default_queue]
    ELSE [raised |-> FALSE, qid |-> qid]

RECURSIVE lstrip(_, _)
lstrip(s, c) == IF s # <<>> /\ Head(s) = c THEN lstrip(Tail(s), c) ELSE s

RECURSIVE rstrip(_, _)
rstrip(s, c) ==
    IF s # <<>> /\ s[Len(s)] = c THEN rstrip(SubSeq(s, 1, Len(s) - 1), c) ELSE s

\* s.strip(c)
strip(s, c) == rstrip(lstrip(s, c), c)

\* get_url with the slip of stripping the host too
get_url_strips_host(p) == rstrip(host, "/") \o <<"/">> \o strip(p, "/")

\* __get_url: '{}/{}'.format(self.__host, path.strip('/'))
get_url(p) == host \o <<"/">> \o strip(p, "/")

\* ''.join(args)
RECURSIVE join(_)
join(args) == IF args = <<>> THEN <<>> ELSE Head(args) \o join(Tail(args))

\* get_signature with the slip '|'.join(args)
get_signature_delimited(args) ==
    hmac_md5_hexdigest(secret_key,
        encode_utf8(IF args = <<>> THEN <<>>
                    ELSE Head(args) \o join([i \in 1..(Len(args) - 1) |-> <<"|">> \o args[i + 1]])))

\* __get_signature(*args)
get_signature(args) == hmac_md5_hexdigest(secret_key, encode_utf8(join(args)))

\* requests.get / post / put / delete: the request that goes out
requests_get(url, headers) ==
    [method |-> <<"G","E","T">>, url |-> url, headers |-> headers, data |-> None]

requests_post(url, headers, data) ==
    [method |-> <<"P","O","S","T">>, url |-> url, headers |-> headers, data |-> PyStr(data)]

requests_put(url, headers, data) ==
    [method |-> <<"P","U","T">>, url |-> url, headers |-> headers, data |-> PyStr(data)]

requests_delete(url, headers) ==
    [method |-> <<"D","E","L","E","T","E">>, url |-> url, headers |-> headers, data |-> None]

\* get with the slip of sending the secret key as the Authorization header
get_authorizes_with_key(p) ==
    LET url == get_url(p)
        headers ==
            ("Authorization" :> ctor.secret_key)
            @@ ("Accept" :> APPLICATION_JSON)
            @@ ("X-HMAC-Signature" :> get_signature(<<<<"G","E","T">>, url>>))
    IN  requests_get(url, headers)

\* __get
get(p) ==
    LET url == get_url(p)
        headers ==
            ("Authorization" :> shop_id)
            @@ ("Accept" :> APPLICATION_JSON)
            @@ ("X-HMAC-Signature" :> get_signature(<<<<"G","E","T">>, url>>))
    IN  requests_get(url, headers)

\* __post
post(p, d) ==
    LET url == get_url(p)
        data == json_encode(d)
        headers ==
            ("Authorization" :> shop_id)
            @@ ("Accept" :> APPLICATION_JSON)
            @@ ("Content-Type" :> APPLICATION_JSON)
            @@ ("X-HMAC-Signature" :> get_signature(<<<<"P","O","S","T">>, url, data>>))
    IN  requests_post(url, headers, data)

\* put with the slip of signing 'POST'
put_signs_post(p, d) ==
    LET url == get_url(p)
        data == json_encode(d)
        headers ==
            ("Authorization" :> shop_id)
            @@ ("Accept" :> APPLICATION_JSON)
            @@ ("Content-Type" :> APPLICATION_JSON)
            @@ ("X-HMAC-Signature" :> get_signature(<<<<"P","O","S","T">>, url, data>>))
    IN  requests_put(url, headers, data)

\* __put
put(p, d) ==
    LET url == get_url(p)
        data == json_encode(d)
        headers ==
            ("Authorization" :> shop_id)
            @@ ("Accept" :> APPLICATION_JSON)
            @@ ("Content-Type" :> APPLICATION_JSON)
            @@ ("X-HMAC-Signature" :> get_signature(<<<<"P","U","T">>, url, data>>))
    IN  requests_put(url, headers, data)

\* __delete
delete(p) ==
    LET url == get_url(p)
        headers ==
            ("Authorization" :> shop_id)
            @@ ("Accept" :> APPLICATION_JSON)
            @@ ("X-HMAC-Signature" :> get_signature(<<<<"D","E","L","E","T","E">>, url>>))
    IN  requests_delete(url, headers)

\* raise_for_status with the slip of raising for 5xx only
raise_for_status_5xx(r) == 500 <= r.status /\ r.status < 600

\* rep.raise_for_status() raises HTTPError for a 4xx or 5xx status
raise_for_status(r) == 400 <= r.status /\ r.status < 600

-----------------------------------------------------------------------------
(* Inputs. *)

ShopIds == {<<"s","h","o","p","-","1">>, <<"s","h","o","p","-","2">>}
SecretKeys == {<<"K","e","y","A">>, <<"K","e","y","B">>}

RECURSIVE Slashes(_)
Slashes(n) == IF n = 0 THEN <<>> ELSE <<"/">> \o Slashes(n - 1)

Hosts == {DEFAULT_HOST \o Slashes(n) : n \in 0..MaxSlashes}

QueueIds == {PyInt(n) : n \in 0..MaxQid}
Ids == {PyInt(n) : n \in 1..MaxId} \cup {PyStr(<<"a","7">>)}

\* dict(check), dict(order): the items of the mapping, in order
Checks ==
    {<< <<<<"t","o","t","a","l">>, PyDecimal(1050, 2)>>,
        <<<<"e","m","a","i","l">>, PyStr(<<"a","@","b">>)>> >>}
Orders ==
    {<< <<<<"o","r","d","e","r","_","i","d">>, PyInt(12)>>,
        <<<<"n","o","t","e">>, PyStr(<<"\"","x","\"">>)>> >>}

Starts == {PyStr(<<"0">>), PyStr(<<"5">>)}
Limits == {PyStr(<<"1","0">>), PyStr(<<"2","0">>)}
CourierIds == {None, PyStr(<<>>), PyStr(<<"7">>), PyInt(0)}
DateStarts == {None, PyStr(<<>>), PyStr(<<"2","0","1","8","-","0","1","-","0","1">>)}

\* the optional filters the caller supplied, in the order it wrote them
KwOrders(courier_id, date_start) ==
    CASE courier_id # None /\ date_start # None ->
            {<<"courier_id", "date_start">>, <<"date_start", "courier_id">>}
      [] courier_id # None /\ date_start = None -> {<<"courier_id">>}
      [] courier_id = None /\ date_start # None -> {<<"date_start">>}
      [] OTHER -> {<<>>}

\* what the server may answer: success, a redirect that is not followed (no
\* error to raise_for_status), a client error, a server error
Statuses == {200, 302, 404, 500}

FullOrder == [f \in OrderInfoFields |-> "x"]

Bodies ==
    {[kind |-> "invalid"],
     [kind |-> "array"],
     [kind |-> "object", v |-> <<>>],
     [kind |-> "object", v |-> ("state" :> "active")],
     [kind |-> "object", v |-> ("state" :> "passive") @@ ("id" :> "1")],
     [kind |-> "object", v |-> FullOrder],
     [kind |-> "object", v |-> [f \in OrderInfoFields \ {"callback_url"} |-> "x"]],
     [kind |-> "object", v |-> ("couriers" :> "x") @@ ("meta" :> "x")]}

-----------------------------------------------------------------------------
(* Construction. *)

\* __init__(shop_id, secret_key)
Client_init(sid, key) ==
    /\ host = DEFAULT_HOST
    /\ shop_id = sid
    /\ secret_key = encode_utf8(key)
    /\ default_queue = None
    /\ ctor = [shop_id |-> sid, secret_key |-> key]

Idle ==
    /\ pc = "idle"
    /\ call = [op |-> "none"]
    /\ path = None
    /\ sent = <<>>
    /\ rep = None
    /\ outcome = NoOutcome

Init ==
    /\ \E sid \in ShopIds, key \in SecretKeys : Client_init(sid, key)
    /\ Idle
    /\ sign = [pc |-> "off"]

-----------------------------------------------------------------------------
(* The two ways a handler leaves the idle state. *)

\* the handler has built its path and issued its one request
Requested(c, p, req) ==
    /\ pc' = "waiting"
    /\ call' = c
    /\ path' = PyStr(p)
    /\ sent' = <<req>>
    /\ rep' = None
    /\ outcome' = NoOutcome
    /\ UNCHANGED <<config, ctor, sign>>

\* the handler has raised before any request
RaisedEarly(c, exc) ==
    /\ pc' = "done"
    /\ call' = c
    /\ path' = None
    /\ sent' = <<>>
    /\ rep' = None
    /\ outcome' = Raise(exc)
    /\ UNCHANGED <<config, ctor, sign>>

-----------------------------------------------------------------------------
(* Configuration. *)

\* set_host with the slip of clearing the default queue
set_host_resets_queue(h) ==
    /\ pc = "idle"
    /\ host' = h
    /\ default_queue' = None
    /\ pc' = "done"
    /\ call' = [op |-> "set_host", host |-> h]
    /\ path' = None
    /\ sent' = <<>>
    /\ rep' = None
    /\ outcome' = Return(Self)
    /\ UNCHANGED <<shop_id, secret_key, ctor, sign>>

set_host(h) ==
    /\ pc = "idle"
    /\ host' = h
    /\ pc' = "done"
    /\ call' = [op |-> "set_host", host |-> h]
    /\ path' = None
    /\ sent' = <<>>
    /\ rep' = None
    /\ outcome' = Return(Self)
    /\ UNCHANGED <<shop_id, secret_key, default_queue, ctor, sign>>

set_default_queue(qid) ==
    /\ pc = "idle"
    /\ default_queue' = qid
    /\ pc' = "done"
    /\ call' = [op |-> "set_default_queue", qid |-> qid]
    /\ path' = None
    /\ sent' = <<>>
    /\ rep' = None
    /\ outcome' = Return(Self)
    /\ UNCHANGED <<host, shop_id, secret_key, ctor, sign>>

-----------------------------------------------------------------------------
(* The operations, up to the HTTP request. *)

is_queue_active(qid) ==
    /\ pc = "idle"
    /\ LET c == [op |-> "is_queue_active", qid |-> qid]
           r == handle_queue_id(qid)
       IN  IF r.raised
           THEN RaisedEarly(c, r.exc)
           ELSE LET p == P_QUEUES \o Fmt(r.qid)
                IN  Requested(c, p, get(p))

create_task(check, qid) ==
    /\ pc = "idle"
    /\ LET c == [op |-> "create_task", check |-> check, qid |-> qid]
           r == handle_queue_id(qid)
       IN  IF r.raised
           THEN RaisedEarly(c, r.exc)
           ELSE LET p == P_QUEUES \o Fmt(r.qid) \o P_TASK
                IN  Requested(c, p, post(p, check))

get_task_info(task_id) ==
    /\ pc = "idle"
    /\ LET p == P_TASKS \o Fmt(task_id)
       IN  Requested([op |-> "get_task_info", task_id |-> task_id], p, get(p))

\* get_orders_url with the slip `is not None` for the truth test
get_orders_url_not_none(start, limit, courier_id, date_start) ==
    LET url0 == P_ORDERS_START \o Fmt(start) \o P_LIMIT \o Fmt(limit)
        url1 == IF courier_id # None THEN url0 \o P_COURIER_ID \o Fmt(courier_id) ELSE url0
        url2 == IF date_start # None THEN url1 \o P_DATE_START \o Fmt(date_start) ELSE url1
    IN  url2

\* the url that get_orders builds
get_orders_url(start, limit, courier_id, date_start) ==
    LET url0 == P_ORDERS_START \o Fmt(start) \o P_LIMIT \o Fmt(limit)
        url1 == IF Truthy(courier_id) THEN url0 \o P_COURIER_ID \o Fmt(courier_id) ELSE url0
        url2 == IF Truthy(date_start) THEN url1 \o P_DATE_START \o Fmt(date_start) ELSE url1
    IN  url2

get_orders(start, limit, courier_id, date_start, kw) ==
    /\ pc = "idle"
    /\ LET p == get_orders_url(start, limit, courier_id, date_start)
       IN  Requested([op |-> "get_orders", start |-> start, limit |-> limit,
                      courier_id |-> courier_id, date_start |-> date_start, kw |-> kw],
                     p, get(p))

get_couriers(start, limit) ==
    /\ pc = "idle"
    /\ LET p == P_COURIERS_START \o Fmt(start) \o P_LIMIT \o Fmt(limit)
       IN  Requested([op |-> "get_couriers", start |-> start, limit |-> limit], p, get(p))

create_order(order) ==
    /\ pc = "idle"
    /\ LET p == P_ORDERS
       IN  Requested([op |-> "create_order", order |-> order], p, post(p, order))

update_order(oid, order) ==
    /\ pc = "idle"
    /\ LET p == P_ORDERS_SLASH \o Fmt(oid)
       IN  Requested([op |-> "update_order", oid |-> oid, order |-> order], p, put(p, order))

get_order_info(oid) ==
    /\ pc = "idle"
    /\ LET p == P_ORDERS_SLASH \o Fmt(oid)
       IN  Requested([op |-> "get_order_info", oid |-> oid], p, get(p))

delete_order(oid) ==
    /\ pc = "idle"
    /\ LET p == P_ORDERS_SLASH \o Fmt(oid)
       IN  Requested([op |-> "delete_order", oid |-> oid], p, delete(p))

-----------------------------------------------------------------------------
(* The operations, from the response on. *)

\* rep.json() followed by Response(**result)
as_Response(r) ==
    CASE r.body.kind = "invalid" -> Raise(JSONDecodeError)
      [] r.body.kind = "array" -> Raise(TypeError)
      [] OTHER -> Return(Response(r.body.v))

\* rep.json() followed by a namedtuple's constructor: every field, and no other
as_namedtuple(type, fields, r) ==
    CASE r.body.kind = "invalid" -> Raise(JSONDecodeError)
      [] r.body.kind = "array" -> Raise(TypeError)
      [] OTHER ->
            IF DOMAIN r.body.v = fields
            THEN Return([type |-> type, fields |-> r.body.v])
            ELSE Raise(TypeError)

\* is_queue_active_result with the slip of answering False to an error status
is_queue_active_result_swallows(r) ==
    IF raise_for_status(r) THEN Return(PyBool(FALSE))
    ELSE CASE r.body.kind = "invalid" -> Raise(JSONDecodeError)
           [] r.body.kind = "array" -> Raise(AttributeError)
           [] OTHER ->
                Return(PyBool("state" \in DOMAIN r.body.v /\ r.body.v["state"] = "active"))

is_queue_active_result(r) ==
    IF raise_for_status(r) THEN Raise(HTTPError(r))
    ELSE CASE r.body.kind = "invalid" -> Raise(JSONDecodeError)
           [] r.body.kind = "array" -> Raise(AttributeError)
           [] OTHER ->
                Return(PyBool("state" \in DOMAIN r.body.v /\ r.body.v["state"] = "active"))

create_task_result(r) ==
    IF raise_for_status(r) THEN Raise(HTTPError(r)) ELSE as_Response(r)

get_task_info_result(r) ==
    IF raise_for_status(r) THEN Raise(HTTPError(r)) ELSE as_Response(r)

get_orders_result(r) ==
    IF raise_for_status(r) THEN Raise(HTTPError(r))
    ELSE IF r.body.kind = "invalid" THEN Raise(JSONDecodeError)
    ELSE Return([type |-> "json", v |-> r.body])

get_couriers_result(r) ==
    IF raise_for_status(r) THEN Raise(HTTPError(r))
    ELSE as_namedtuple("CouriersInfo", CouriersInfoFields, r)

create_order_result(r) ==
    IF raise_for_status(r) THEN Raise(HTTPError(r))
    ELSE as_namedtuple("OrderInfo", OrderInfoFields, r)

update_order_result(r) ==
    IF raise_for_status(r) THEN Raise(HTTPError(r))
    ELSE as_namedtuple("OrderInfo", OrderInfoFields, r)

get_order_info_result(r) ==
    IF raise_for_status(r) THEN Raise(HTTPError(r))
    ELSE as_namedtuple("OrderInfo", OrderInfoFields, r)

delete_order_result(r) ==
    IF raise_for_status(r) THEN Raise(HTTPError(r)) ELSE Return(PyBool(TRUE))

\* the rest of the handler that is waiting for the response
Continue(op, r) ==
    CASE op = "is_queue_active" -> is_queue_active_result(r)
      [] op = "create_task" -> create_task_result(r)
      [] op = "get_task_info" -> get_task_info_result(r)
      [] op = "get_orders" -> get_orders_result(r)
      [] op = "get_couriers" -> get_couriers_result(r)
      [] op = "create_order" -> create_order_result(r)
      [] op = "update_order" -> update_order_result(r)
      [] op = "get_order_info" -> get_order_info_result(r)
      [] op = "delete_order" -> delete_order_result(r)

\* the transport returns a response and the handler runs to its end
HttpResponse(status, body) ==
    /\ pc = "waiting"
    /\ rep' = [status |-> status, body |-> body]
    /\ outcome' = Continue(call.op, rep')
    /\ pc' = "done"
    /\ UNCHANGED <<config, ctor, call, path, sent, sign>>

\* HttpFailure with the slip of trying the request once more before giving up
HttpFailure_retries ==
    /\ pc = "waiting"
    /\ IF Len(sent) < 2
       THEN /\ sent' = Append(sent, sent[1])
            /\ UNCHANGED <<pc, outcome>>
       ELSE /\ outcome' = Raise(ConnectionError)
            /\ pc' = "done"
            /\ UNCHANGED sent
    /\ UNCHANGED <<config, ctor, call, path, rep, sign>>

\* the transport raises (no connection): the exception leaves the handler as it is
HttpFailure ==
    /\ pc = "waiting"
    /\ outcome' = Raise(ConnectionError)
    /\ pc' = "done"
    /\ UNCHANGED <<config, ctor, call, path, sent, rep, sign>>

\* the caller has the result or the exception: the call's frame is gone and the
\* client is ready for the next call
Done ==
    /\ pc = "done"
    /\ pc' = "idle"
    /\ call' = [op |-> "none"]
    /\ path' = None
    /\ sent' = <<>>
    /\ rep' = None
    /\ outcome' = NoOutcome
    /\ UNCHANGED <<config, ctor, sign>>

-----------------------------------------------------------------------------

Next ==
    \/ \E h \in Hosts : set_host(h)
    \/ \E q \in QueueIds \cup {None} : set_default_queue(q)
    \/ \E q \in QueueIds \cup {None} : is_queue_active(q)
    \/ \E c \in Checks, q \in QueueIds \cup {None} : create_task(c, q)
    \/ \E t \in Ids : get_task_info(t)
    \/ \E s \in Starts, l \in Limits, c \in CourierIds, d \in DateStarts :
            \E kw \in KwOrders(c, d) : get_orders(s, l, c, d, kw)
    \/ \E s \in Starts, l \in Limits : get_couriers(s, l)
    \/ \E o \in Orders : create_order(o)
    \/ \E i \in Ids, o \in Orders : update_order(i, o)
    \/ \E i \in Ids : get_order_info(i)
    \/ \E i \in Ids : delete_order(i)
    \/ \E st \in Statuses, b \in Bodies : HttpResponse(st, b)
    \/ HttpFailure
    \/ Done

Spec == Init /\ [][Next]_vars

-----------------------------------------------------------------------------
(* __get_signature called directly, on any three strings. *)

Alphabet == {"a", "b"}

RECURSIVE StringsOfLen(_)
StringsOfLen(n) ==
    IF n = 0 THEN {<<>>}
    ELSE {<<c>> \o s : c \in Alphabet, s \in StringsOfLen(n - 1)}

Strings == UNION {StringsOfLen(n) : n \in 1..MaxLen}

Methods == {<<"G","E","T">>, <<"P","O","S","T">>, <<"P","U","T">>, <<"D","E","L","E","T","E">>}

InitSign ==
    /\ \E sid \in ShopIds, key \in SecretKeys : Client_init(sid, key)
    /\ Idle
    /\ \E m \in Methods, u \in Strings, b \in Strings :
            sign = [pc |-> "args", method |-> m, url |-> u, body |-> b]

\* sign(method, url, body) and sign(method, body, url)
SignBoth ==
    /\ sign.pc = "args"
    /\ sign' = [sign EXCEPT !.pc = "done"] @@
               [sig |-> get_signature(<<sign.method, sign.url, sign.body>>),
                swapped |-> get_signature(<<sign.method, sign.body, sign.url>>)]
    /\ UNCHANGED <<config, ctor, pc, call, path, sent, rep, outcome>>

NextSign == SignBoth

SpecSign == InitSign /\ [][NextSign]_vars

-----------------------------------------------------------------------------
(* Helpers of the properties. *)

StartsWith(s, prefix) ==
    Len(prefix) <= Len(s) /\ SubSeq(s, 1, Len(prefix)) = prefix

EndsWith(s, suffix) ==
    Len(suffix) <= Len(s) /\ SubSeq(s, Len(s) - Len(suffix) + 1, Len(s)) = suffix

Contains(s, part) ==
    \E i \in 1..(Len(s) - Len(part) + 1) : SubSeq(s, i, i + Len(part) - 1) = part

\* the call in progress, or just ended, is an API operation
InCall(op) == pc \in {"waiting", "done"} /\ call.op = op

ApiOps ==
    {"is_queue_active", "create_task", "get_task_info", "get_orders", "get_couriers",
     "create_order", "update_order", "get_order_info", "delete_order"}

IsErrorStatus(status) == status \in 400..599

-----------------------------------------------------------------------------
(* C1 *)

\* the url of a queue request for queue id q
QueueUrl(op, q) ==
    host \o <<"/","a","p","i","/","s","h","o","p","/","v","1","/","q","u","e","u","e","s","/">>
         \o IntStr(q.v)
         \o (IF op = "create_task" THEN <<"/","t","a","s","k">> ELSE <<>>)

\* C1: is_queue_active and create_task put the supplied queue id in the request
\* path; with none supplied they put the configured default there; with none
\* supplied and no default they raise ValueError and no request has been issued.
C1_QueueIdResolution ==
    \A op \in {"is_queue_active", "create_task"} :
        InCall(op) =>
            IF call.qid # None
            THEN Len(sent) = 1 /\ sent[1].url = QueueUrl(op, call.qid)
            ELSE IF default_queue # None
            THEN Len(sent) = 1 /\ sent[1].url = QueueUrl(op, default_queue)
            ELSE /\ pc = "done"
                 /\ sent = <<>>
                 /\ outcome.kind = "raise"
                 /\ outcome.exc.type = "ValueError"

C1_Witness ==
    /\ InCall("create_task")
    /\ call.qid = None
    /\ default_queue = PyInt(1)
    /\ Len(sent) = 1
    /\ sent[1].url = QueueUrl("create_task", PyInt(1))

-----------------------------------------------------------------------------
(* C2 *)

Body(r) == IF r.data = None THEN <<>> ELSE r.data.v

\* C2: the X-HMAC-Signature of every request sent is the HMAC, under the secret
\* key, of the method sent, the url requested and (POST and PUT only) the body
\* sent, concatenated in that order with nothing between them.
C2_SignatureBindsRequest ==
    \A i \in 1..Len(sent) :
        LET r == sent[i]
        IN  /\ r.headers["X-HMAC-Signature"] =
                    hmac_md5_hexdigest(encode_utf8(ctor.secret_key),
                                       encode_utf8(r.method \o r.url \o Body(r)))
            /\ (r.data # None) <=> (r.method \in {<<"P","O","S","T">>, <<"P","U","T">>})

C2_Witness ==
    /\ InCall("update_order")
    /\ Len(sent) = 1
    /\ sent[1].method = <<"P","U","T">>
    /\ sent[1].data # None
    /\ Len(sent[1].data.v) > 2

-----------------------------------------------------------------------------
(* C3 *)

\* the result an operation builds from a success response
FullyPopulated(op, value, r) ==
    CASE op = "is_queue_active" -> value.type = "bool"
      [] op \in {"create_task", "get_task_info"} ->
            /\ value.type = "Response"
            /\ r.body.kind = "object"
            /\ value.data = r.body.v
      [] op = "get_orders" -> value.type = "json" /\ value.v = r.body
      [] op = "get_couriers" ->
            /\ value.type = "CouriersInfo"
            /\ DOMAIN value.fields = {"couriers", "meta"}
            /\ value.fields = r.body.v
      [] op \in {"create_order", "update_order", "get_order_info"} ->
            /\ value.type = "OrderInfo"
            /\ DOMAIN value.fields = OrderInfoFields
            /\ value.fields = r.body.v
      [] op = "delete_order" -> value = PyBool(TRUE)

\* C3: an operation answered with a 4xx or 5xx status raises an error carrying
\* that status and body and returns nothing; an operation that returns, returns a
\* fully populated result built from a response that is no error.
C3_RaiseOrFullResult ==
    (pc = "done" /\ call.op \in ApiOps) =>
        /\ outcome.kind \in {"return", "raise"}
        /\ (rep # None /\ IsErrorStatus(rep.status)) =>
                /\ outcome.kind = "raise"
                /\ outcome.exc.type = "HTTPError"
                /\ outcome.exc.response.status = rep.status
                /\ outcome.exc.response.body = rep.body
        /\ outcome.kind = "return" =>
                /\ rep # None
                /\ ~IsErrorStatus(rep.status)
                /\ FullyPopulated(call.op, outcome.value, rep)

C3_Witness ==
    /\ pc = "done"
    /\ call.op = "get_order_info"
    /\ rep # None
    /\ rep.status = 404
    /\ rep.body.kind = "object"
    /\ DOMAIN rep.body.v = OrderInfoFields
    /\ outcome.kind = "raise"
    /\ outcome.exc.type = "HTTPError"

-----------------------------------------------------------------------------
(* C4 *)

\* s is core with only slashes before and after it, and core neither starts nor
\* ends with a slash
IsSlashStripped(s, core) ==
    /\ (core # <<>> => core[1] # "/" /\ core[Len(core)] # "/")
    /\ \E i, j \in 0..Len(s) : s = Slashes(i) \o core \o Slashes(j)

\* C4 as stated: the url requested is the host without its trailing slashes, one
\* '/', and the path without its leading slashes.
C4_UrlStripsHost ==
    \A i \in 1..Len(sent) :
        sent[i].url = rstrip(host, "/") \o <<"/">> \o lstrip(path.v, "/")

\* C4 as amended: the url requested is the host exactly as configured, one '/',
\* and the path without its leading and trailing slashes; for the default host
\* and the path /api/shop/v1/orders it is
\* https://kassa.komtet.ru/api/shop/v1/orders, and for the host
\* https://kassa.komtet.ru/ it is https://kassa.komtet.ru//api/shop/v1/orders.
C4_UrlJoin ==
    \A i \in 1..Len(sent) :
        LET url == sent[i].url
        IN  /\ StartsWith(url, host \o <<"/">>)
            /\ IsSlashStripped(path.v, SubSeq(url, Len(host) + 2, Len(url)))
            /\ (path.v = P_ORDERS /\ host = DEFAULT_HOST) =>
                    url = <<"h","t","t","p","s",":","/","/","k","a","s","s","a",".","k","o","m","t","e","t",".","r","u","/","a","p","i","/","s","h","o","p","/","v","1","/","o","r","d","e","r","s">>
            /\ (path.v = P_ORDERS /\ host = DEFAULT_HOST \o <<"/">>) =>
                    url = <<"h","t","t","p","s",":","/","/","k","a","s","s","a",".","k","o","m","t","e","t",".","r","u","/","/","a","p","i","/","s","h","o","p","/","v","1","/","o","r","d","e","r","s">>

C4_Witness ==
    /\ InCall("create_order")
    /\ host = DEFAULT_HOST \o <<"/">>
    /\ path = PyStr(P_ORDERS)
    /\ Len(sent) = 1
    /\ Contains(sent[1].url, <<"u","/","/","a","p","i">>)

-----------------------------------------------------------------------------
(* C5 *)

\* C5 as stated: with url and body different strings, sign(method, url, body)
\* differs from sign(method, body, url).
C5_SwapChangesSignature ==
    (sign.pc = "done" /\ sign.url # sign.body) => sign.sig # sign.swapped

\* C5 as amended: whenever url+body = body+url, which is so for some different
\* url and body (both powers of one string, as "a" and "aa"), sign(method, url,
\* body) and sign(method, body, url) sign the same string and are equal;
\* whenever url+body differs from body+url the two signed strings differ.
C5_SwapChangesSignedString ==
    sign.pc = "done" =>
        /\ sign.sig.msg = encode_utf8(sign.method \o sign.url \o sign.body)
        /\ sign.swapped.msg = encode_utf8(sign.method \o sign.body \o sign.url)
        /\ (sign.url \o sign.body = sign.body \o sign.url) => sign.sig = sign.swapped
        /\ (sign.url \o sign.body # sign.body \o sign.url) => sign.sig.msg # sign.swapped.msg

C5_Witness ==
    /\ sign.pc = "done"
    /\ sign.url = <<"a">>
    /\ sign.body = <<"a", "a">>
    /\ sign.sig = sign.swapped

-----------------------------------------------------------------------------
(* C6 *)

KwValue(c, name) == IF name = "courier_id" THEN c.courier_id ELSE c.date_start

RECURSIVE QueryOf(_, _)
QueryOf(c, names) ==
    IF names = <<>> THEN <<>>
    ELSE <<"&">> \o (IF Head(names) = "courier_id"
                     THEN <<"c","o","u","r","i","e","r","_","i","d">>
                     ELSE <<"d","a","t","e","_","s","t","a","r","t">>)
         \o <<"=">> \o Fmt(KwValue(c, Head(names))) \o QueryOf(c, Tail(names))

OrdersQuery(c, names) ==
    <<"/","a","p","i","/","s","h","o","p","/","v","1","/","o","r","d","e","r","s","?">>
    \o <<"s","t","a","r","t","=">> \o Fmt(c.start)
    \o <<"&","l","i","m","i","t","=">> \o Fmt(c.limit)
    \o QueryOf(c, names)

\* a value that `if value:` lets through
Emitted(v) == v # None /\ v # PyStr(<<>>) /\ v # PyInt(0)

\* C6 as stated: the query of get_orders is start and limit followed by every
\* filter the caller supplied, whatever its value, in the order it supplied them.
C6_QueryAsSupplied ==
    InCall("get_orders") => path.v = OrdersQuery(call, call.kw)

\* C6 as amended: the query of get_orders is start and limit, then courier_id,
\* then date_start, in that fixed order whatever order the caller wrote them in;
\* a filter is in the query if and only if its value is truthy (not None, not
\* the empty string, not 0); get_orders("5", "20", courier_id="7") asks for
\* start=5&limit=20&courier_id=7.
C6_QueryFixedOrder ==
    InCall("get_orders") =>
        /\ path.v = OrdersQuery(call,
                        SelectSeq(<<"courier_id", "date_start">>,
                                  LAMBDA n : Emitted(KwValue(call, n))))
        /\ (/\ call.start = PyStr(<<"5">>)
            /\ call.limit = PyStr(<<"2","0">>)
            /\ call.courier_id = PyStr(<<"7">>)
            /\ call.date_start = None) =>
                path.v = <<"/","a","p","i","/","s","h","o","p","/","v","1","/","o","r","d","e","r","s","?">>
                         \o <<"s","t","a","r","t","=","5","&","l","i","m","i","t","=","2","0","&","c","o","u","r","i","e","r","_","i","d","=","7">>
        /\ sent[1].url = host \o <<"/">> \o Tail(path.v)

C6_Witness ==
    /\ InCall("get_orders")
    /\ call.kw = <<"date_start", "courier_id">>
    /\ call.courier_id = PyStr(<<"7">>)
    /\ call.date_start # PyStr(<<>>)
    /\ EndsWith(path.v, <<"&","c","o","u","r","i","e","r","_","i","d","=","7","&","d","a","t","e","_","s","t","a","r","t","=","2","0","1","8","-","0","1","-","0","1">>)

-----------------------------------------------------------------------------
(* C7 *)

\* C7: every request sent carries Authorization: the shop id given to the
\* constructor, Accept: application/json and an X-HMAC-Signature; it carries
\* Content-Type: application/json if and only if it has a body, which POST and
\* PUT have and GET and DELETE have not; the secret key given to the
\* constructor is in no url, in no body and in no header (the signature header
\* is the digest of C2, not the key).
C7_HeaderContract ==
    \A i \in 1..Len(sent) :
        LET r == sent[i]
            h == r.headers
        IN  /\ {"Authorization", "Accept", "X-HMAC-Signature"} \subseteq DOMAIN h
            /\ DOMAIN h \subseteq
                    {"Authorization", "Accept", "X-HMAC-Signature", "Content-Type"}
            /\ h["Authorization"] = ctor.shop_id
            /\ h["Accept"] = <<"a","p","p","l","i","c","a","t","i","o","n","/","j","s","o","n">>
            /\ h["X-HMAC-Signature"].alg = "HMAC-MD5"
            /\ ("Content-Type" \in DOMAIN h) <=> (r.data # None)
            /\ ("Content-Type" \in DOMAIN h) =>
                    h["Content-Type"] = <<"a","p","p","l","i","c","a","t","i","o","n","/","j","s","o","n">>
            /\ (r.data # None) <=> (r.method \in {<<"P","O","S","T">>, <<"P","U","T">>})
            /\ ~Contains(r.url, ctor.secret_key)
            /\ ~Contains(Body(r), ctor.secret_key)
            /\ \A k \in DOMAIN h \ {"X-HMAC-Signature"} : ~Contains(h[k], ctor.secret_key)

C7_Witness ==
    /\ InCall("create_order")
    /\ Len(sent) = 1
    /\ "Content-Type" \in DOMAIN sent[1].headers
    /\ sent[1].headers["Authorization"] = <<"s","h","o","p","-","2">>
    /\ ctor.secret_key = <<"K","e","y","B">>

-----------------------------------------------------------------------------
(* C8 *)

\* C8: on a response that is no error and decodes to an object, is_queue_active
\* returns True if the object has a field state equal to "active" and False
\* otherwise, also when there is no such field; on an error status it raises.
C8_IsQueueActive ==
    (pc = "done" /\ call.op = "is_queue_active" /\ rep # None) =>
        IF IsErrorStatus(rep.status)
        THEN outcome.kind = "raise" /\ outcome.exc.type = "HTTPError"
        ELSE rep.body.kind = "object" =>
                /\ outcome.kind = "return"
                /\ outcome.value.type = "bool"
                /\ outcome.value.v
                        <=> (\E f \in DOMAIN rep.body.v :
                                f = "state" /\ rep.body.v[f] = "active")

C8_Witness ==
    /\ pc = "done"
    /\ call.op = "is_queue_active"
    /\ rep # None
    /\ rep.status = 200
    /\ rep.body.kind = "object"
    /\ "state" \notin DOMAIN rep.body.v
    /\ outcome = Return(PyBool(FALSE))

-----------------------------------------------------------------------------
(* C9 *)

\* a step that runs the setter op
Sets(op) == pc = "idle" /\ pc' = "done" /\ call'.op = op

\* C9: the client starts with the default host and no default queue; set_host
\* sets the host to its argument and leaves the rest, set_default_queue sets the
\* default queue to its argument and leaves the rest, both return the client;
\* no other step changes the host, the shop id, the secret key or the default
\* queue, and shop id and secret key are the constructor's arguments.
C9_ConfigFrame ==
    /\ host = DEFAULT_HOST
    /\ default_queue = None
    /\ shop_id = ctor.shop_id
    /\ secret_key = encode_utf8(ctor.secret_key)
    /\ [][/\ Sets("set_host") =>
                /\ host' = call'.host
                /\ outcome' = Return(Self)
                /\ UNCHANGED <<default_queue, shop_id, secret_key>>
          /\ Sets("set_default_queue") =>
                /\ default_queue' = call'.qid
                /\ outcome' = Return(Self)
                /\ UNCHANGED <<host, shop_id, secret_key>>
          /\ ~(Sets("set_host") \/ Sets("set_default_queue")) => UNCHANGED config
          /\ UNCHANGED ctor]_vars

C9_Witness ==
    /\ pc = "done"
    /\ call.op = "set_host"
    /\ host = call.host
    /\ host # DEFAULT_HOST
    /\ default_queue = PyInt(1)
    /\ outcome = Return(Self)

-----------------------------------------------------------------------------
(* C10 *)

\* the method and the url pattern of the operations table
MethodOf(op) ==
    CASE op \in {"create_task", "create_order"} -> <<"P","O","S","T">>
      [] op = "update_order" -> <<"P","U","T">>
      [] op = "delete_order" -> <<"D","E","L","E","T","E">>
      [] OTHER -> <<"G","E","T">>

Api == <<"/","a","p","i","/","s","h","o","p","/","v","1","/">>

MatchesPattern(op, url) ==
    LET q == Api \o <<"q","u","e","u","e","s","/">>
        t == Api \o <<"t","a","s","k","s","/">>
        o == Api \o <<"o","r","d","e","r","s">>
        c == Api \o <<"c","o","u","r","i","e","r","s">>
        at(prefix) == StartsWith(url, host \o prefix)
        more(prefix) == Len(url) > Len(host \o prefix)
    IN  CASE op = "is_queue_active" ->
                at(q) /\ more(q) /\ ~EndsWith(url, <<"/","t","a","s","k">>)
          [] op = "create_task" ->
                at(q) /\ more(q \o <<"/","t","a","s","k">>) /\ EndsWith(url, <<"/","t","a","s","k">>)
          [] op = "get_task_info" -> at(t) /\ more(t)
          [] op = "get_orders" -> at(o \o <<"?">>)
          [] op = "get_couriers" -> at(c \o <<"?">>)
          [] op = "create_order" -> url = host \o o
          [] op \in {"update_order", "get_order_info", "delete_order"} ->
                at(o \o <<"/">>) /\ more(o \o <<"/">>)

\* C10: an operation issues at most one request, with the method and the path
\* pattern of the operations table; once the transport has answered with an error
\* status, or has failed, the operation has raised and that one request is all it
\* has issued.
C10_OneRequest ==
    /\ Len(sent) <= 1
    /\ (call.op \in ApiOps /\ Len(sent) = 1) =>
            /\ sent[1].method = MethodOf(call.op)
            /\ MatchesPattern(call.op, sent[1].url)
    /\ (pc = "waiting") => (call.op \in ApiOps /\ Len(sent) = 1)
    /\ (pc = "done" /\ call.op \in ApiOps /\ Len(sent) = 1
            /\ (rep = None \/ IsErrorStatus(rep.status))) =>
            outcome.kind = "raise"

C10_Witness ==
    /\ pc = "done"
    /\ call.op = "delete_order"
    /\ rep = None
    /\ Len(sent) = 1
    /\ sent[1].method = <<"D","E","L","E","T","E">>
    /\ outcome = Raise(ConnectionError)

====
